---------------------------- MODULE Spec2Model ----------------------------
(***************************************************************************)
(* The /query request handlers of the Dubai property agent.                *)
(*                                                                         *)
(* The repository holds two variants of the backend:                       *)
(*   "dubai"                 src/dubai.py: keyword guard, agent with a     *)
(*                           process-wide ConversationBufferMemory;        *)
(*   "dubai_property_agent"  src/dubai_property_agent.py: spelling         *)
(*                           correction, history sent by the client,       *)
(*                           agent with max_iterations = 12.               *)
(* Both listen on port 5000, so one of them runs; Init chooses which.  The *)
(* model follows one request at a time from the POST to the JSON reply;    *)
(* what outlives a request is the catalog and, in src/dubai.py, the        *)
(* memory.  The agent executor is the one create_sql_agent builds: a loop  *)
(* of at most max_iterations rounds (15 when the call names none) that     *)
(* returns a fixed message when stopped by the cap (early stopping method  *)
(* "force"), and whose result may or may not carry the intermediate steps. *)
(* The "openai-tools" agent of src/dubai_property_agent.py may get several *)
(* tool calls in one message of the language model; the executor runs them *)
(* in order before it asks again.                                          *)
(* The language model is the environment: what it answers to the          *)
(* correction prompt and what it proposes at each planning step is a       *)
(* nondeterministic choice.                                                *)
(* Texts are sequences of characters, so that strip(), lower() and the     *)
(* substring tests of the handlers are computed, not assumed.              *)
(*                                                                         *)
(* Three specifications share the variables:                               *)
(*   Spec      a server handling /query requests;                          *)
(*   SpecDb    the start-up of src/dubai_property_agent.py, where          *)
(*             init_database() calls get_db_connection;                    *)
(*   ChatSpec  a browser session of src/app.py or src/chat.py, the backend *)
(*             seen through what requests.post returns or raises.          *)
(* Each leaves the variables of the other two at their initial values.     *)
(***************************************************************************)
EXTENDS Integers, Sequences, FiniteSets, TLC

(***************************************************************************)
(* Texts that occur in the source, character by character.                 *)
(***************************************************************************)
KW_DUBAI ==
  <<"d","u","b","a","i">>

KW_PROPERTY ==
  <<"p","r","o","p","e","r","t","y">>

KW_APARTMENT ==
  <<"a","p","a","r","t","m","e","n","t">>

KW_VILLA ==
  <<"v","i","l","l","a">>

KW_TOWNHOUSE ==
  <<"t","o","w","n","h","o","u","s","e">>

KW_PENTHOUSE ==
  <<"p","e","n","t","h","o","u","s","e">>

KW_BEDROOM ==
  <<"b","e","d","r","o","o","m">>

KW_AED ==
  <<"a","e","d">>

KW_POSSESSION ==
  <<"p","o","s","s","e","s","s","i","o","n">>

REFUSAL ==
  <<"S","o","r","r","y",","," ","I"," ","c","a","n"," ","o","n","l","y"," ",
      "h","e","l","p"," ","w","i","t","h"," ","D","u","b","a","i"," ","r",
      "e","a","l"," ","e","s","t","a","t","e"," ","s","e","a","r","c","h",
      "e","s",".">>

BROADEN_SUFFIX ==
  <<"\n","\n","W","o","u","l","d"," ","y","o","u"," ","l","i","k","e"," ","t",
      "o"," ","b","r","o","a","d","e","n"," ","t","h","e"," ","s","e","a",
      "r","c","h","?">>

TIP_SUFFIX ==
  <<"\n","\n","T","i","p",":"," ","T","r","y"," ","i","n","c","r","e","a","s",
      "i","n","g"," ","t","h","e"," ","b","u","d","g","e","t",","," ","r",
      "e","m","o","v","i","n","g"," ","s","o","m","e"," ","f","i","l","t",
      "e","r","s",","," ","o","r"," ","c","h","e","c","k","i","n","g"," ",
      "n","e","a","r","b","y"," ","a","r","e","a","s",".">>

W_NO ==
  <<"n","o"," ">>

W_ZERO ==
  <<"0"," ">>

W_NONE ==
  <<"n","o","n","e">>

W_RESULT ==
  <<"r","e","s","u","l","t">>

W_FOUND ==
  <<"f","o","u","n","d">>

W_MATCH ==
  <<"m","a","t","c","h">>

ROLE_USER ==
  <<"u","s","e","r">>

ROLE_ASSISTANT ==
  <<"a","s","s","i","s","t","a","n","t">>

ROLE_USER_CAPS ==
  <<"U","s","e","r">>

ROLE_SYSTEM ==
  <<"s","y","s","t","e","m">>

STOPPED_SINGLE ==
  <<"A","g","e","n","t"," ","s","t","o","p","p","e","d"," ","d","u","e"," ",
      "t","o"," ","i","t","e","r","a","t","i","o","n"," ","l","i","m","i",
      "t"," ","o","r"," ","t","i","m","e"," ","l","i","m","i","t",".">>

STOPPED_MULTI ==
  <<"A","g","e","n","t"," ","s","t","o","p","p","e","d"," ","d","u","e"," ",
      "t","o"," ","m","a","x"," ","i","t","e","r","a","t","i","o","n","s",
      ".">>

IN_EMPTY ==
  <<>>

IN_BLANK ==
  <<" "," ">>

IN_VILLAS ==
  <<" ","V","i","l","l","a","s"," ","i","n"," ","D","U","B","A","I">>

IN_READY ==
  <<"a","r","e"," ","t","h","e","y"," ","a","l","l"," ","r","e","a","d","y",
      "?">>

IN_VILAS ==
  <<"V","i","l","a","s"," ","i","n"," ","D","u","b","a","y">>

FIX_VILLAS ==
  <<"V","i","l","l","a","s"," ","i","n"," ","D","u","b","a","i","\n">>

ANS_NO_RESULTS ==
  <<"N","o"," ","r","e","s","u","l","t","s"," ","f","o","u","n","d",".">>

ANS_NOTHING ==
  <<"N","o","t","h","i","n","g"," ","m","a","t","c","h","e","s",".">>

ANS_NO_POOL ==
  <<"F","o","u","n","d"," ","2"," ","r","e","s","u","l","t","s",","," ","n",
      "o"," ","p","o","o","l",".">>

ANS_LISTING ==
  <<"M","a","r","i","n","a"," ","G","a","t","e",","," ","2",",","4","5","0",
      ",","0","0","0"," ","A","E","D">>

ANS_FOUND ==
  <<"F","o","u","n","d"," ","1"," ","m","a","t","c","h",":","\n","M","a","r",
      "i","n","a"," ","G","a","t","e",","," ","2"," ","b","e","d","r","o",
      "o","m",","," ","2",",","4","5","0",",","0","0","0"," ","A","E","D">>

W_AED ==
  <<"A","E","D">>

TURN_USER ==
  <<"A","p","a","r","t","m","e","n","t","s"," ","i","n"," ","D","u","b","a",
      "i"," ","M","a","r","i","n","a">>

(***************************************************************************)
(* Bounds of the model.                                                    *)
(***************************************************************************)
\* sql_db_query calls the language model may propose within one request
MaxQueries == 2
\* exchanges the process-wide memory may hold before the model stops posting
MaxMemory == 2
\* the largest retries a caller of get_db_connection passes
MaxRetries == 4
\* the largest delay, in seconds, a caller of get_db_connection passes
MaxDelay == 2
\* prompts a browser session submits before it is cleared
MaxPrompts == 2
\* seconds the clock of a browser session advances
MaxClock == 2

(***************************************************************************)
(* Python's str operations, on sequences of characters.                    *)
(***************************************************************************)
LowerChar(c) ==
  CASE c = "A" -> "a" [] c = "B" -> "b" [] c = "C" -> "c" [] c = "D" -> "d"
    [] c = "E" -> "e" [] c = "F" -> "f" [] c = "G" -> "g" [] c = "H" -> "h"
    [] c = "I" -> "i" [] c = "J" -> "j" [] c = "K" -> "k" [] c = "L" -> "l"
    [] c = "M" -> "m" [] c = "N" -> "n" [] c = "O" -> "o" [] c = "P" -> "p"
    [] c = "Q" -> "q" [] c = "R" -> "r" [] c = "S" -> "s" [] c = "T" -> "t"
    [] c = "U" -> "u" [] c = "V" -> "v" [] c = "W" -> "w" [] c = "X" -> "x"
    [] c = "Y" -> "y" [] c = "Z" -> "z" [] OTHER -> c

\* s.lower()
lower(s) == [i \in 1..Len(s) |-> LowerChar(s[i])]

IsSpace(c) == c \in {" ", "\n", "\t"}

RECURSIVE lstrip(_)
lstrip(s) == IF s # <<>> /\ IsSpace(Head(s)) THEN lstrip(Tail(s)) ELSE s

RECURSIVE rstrip(_)
rstrip(s) ==
  IF s # <<>> /\ IsSpace(s[Len(s)]) THEN rstrip(SubSeq(s, 1, Len(s) - 1)) ELSE s

\* s.strip()
strip(s) == rstrip(lstrip(s))

\* sub in s
Contains(sub, s) ==
  \E i \in 1..(Len(s) - Len(sub) + 1) : SubSeq(s, i, i + Len(sub) - 1) = sub

(***************************************************************************)
(* The catalog: the properties table and the statements run against it.    *)
(***************************************************************************)
L_MARINA ==
  [id |-> 1, location |-> "Dubai Marina", type |-> "Apartment",
   bedrooms |-> 2, price |-> 2450000]

L_PALM ==
  [id |-> 2, location |-> "Palm Jumeirah", type |-> "Villa",
   bedrooms |-> 5, price |-> 30000000]

\* the rows init_database leaves in the table
Properties == {L_MARINA, L_PALM}

SQL_MARINA == "SELECT * FROM properties WHERE location = 'Dubai Marina' LIMIT 12"

SQL_CHEAP == "SELECT * FROM properties WHERE price < 100 LIMIT 12"

SQL_DELETE == "DELETE FROM properties WHERE price > 0"

\* the statements the language model may hand to the sql_db_query tool
Statements == {SQL_MARINA, SQL_CHEAP, SQL_DELETE}

\* insert/update/delete/alter/drop/truncate
IsMutating(q) == q = SQL_DELETE

\* the rows db.run(q) returns
Rows(q, cat) ==
  CASE q = SQL_MARINA -> {p \in cat : p.location = "Dubai Marina"}
    [] q = SQL_CHEAP -> {p \in cat : p.price < 100}
    [] OTHER -> {}

\* the table after db.run(q)
After(q, cat) ==
  IF q = SQL_DELETE THEN {p \in cat : ~(p.price > 0)} ELSE cat

None == "None"

(***************************************************************************)
(* Requests and what the language model may answer.                        *)
(***************************************************************************)
Backends == {"dubai", "dubai_property_agent"}

\* request bodies: the query texts a client may post
Inputs == {IN_EMPTY, IN_BLANK, IN_VILLAS, IN_VILAS, IN_READY}

\* a prior exchange, and a turn whose role is neither user nor assistant
HISTORY_TURNS ==
  << [role |-> ROLE_USER_CAPS, content |-> TURN_USER],
     [role |-> ROLE_ASSISTANT, content |-> ANS_LISTING],
     [role |-> ROLE_SYSTEM, content |-> ANS_NOTHING] >>

Histories == {<<>>, HISTORY_TURNS}

\* request.get_json() gave no object
NoBody == [json |-> FALSE, has_query |-> FALSE, query |-> <<>>, history |-> <<>>]

Bodies ==
  {NoBody}
    \cup {[json |-> TRUE, has_query |-> FALSE, query |-> <<>>, history |-> h] :
            h \in Histories}
    \cup {[json |-> TRUE, has_query |-> TRUE, query |-> t, history |-> h] :
            t \in Inputs, h \in Histories}

\* what str(e) is when the body is no JSON object
BodyErrors ==
  {"'NoneType' object has no attribute 'get'", "415 Unsupported Media Type"}

\* what str(e) is when a call of the language model fails
LLMErrors == {"Request timed out."}

\* replies of the language model to the correction prompt
CorrectionReplies ==
  {[raised |-> TRUE, content |-> <<>>],
   [raised |-> FALSE, content |-> <<>>],
   [raised |-> FALSE, content |-> FIX_VILLAS]}

NoReply == [raised |-> FALSE, content |-> <<>>]

\* final answers the language model may give
Answers == {ANS_NO_RESULTS, ANS_NOTHING, ANS_NO_POOL, ANS_LISTING}

\* tool calls the language model may propose
ToolCalls ==
  {[tool |-> "sql_db_schema", tool_input |-> "properties"]}
    \cup {[tool |-> "sql_db_query", tool_input |-> q] : q \in Statements}

NoAction == [tool |-> "", tool_input |-> ""]

NoObservation == [kind |-> "none", rows |-> {}]

NoResponse ==
  [code |-> 0, kind |-> "none", error |-> "", response |-> <<>>, sql |-> None]

\* jsonify({"error": e}), code
ErrorResponse(code, e) ==
  [code |-> code, kind |-> "error", error |-> e, response |-> <<>>, sql |-> None]

\* jsonify({"response": text, "sql": sql}), 200
OkResponse(text, sql) ==
  [code |-> 200, kind |-> "response", error |-> "", response |-> text, sql |-> sql]

(***************************************************************************)
(* src/dubai.py: the parts of handle_query that are pure.                  *)
(***************************************************************************)
keywords ==
  {KW_DUBAI, KW_PROPERTY, KW_APARTMENT, KW_VILLA, KW_TOWNHOUSE, KW_PENTHOUSE,
   KW_BEDROOM, KW_AED, KW_POSSESSION}

\* the guard with its condition inverted
GuardInverted(query) == ~(\E kw \in keywords : Contains(kw, lower(query)))

\* any(kw in query.lower() for kw in keywords)
Guard(query) == \E kw \in keywords : Contains(kw, lower(query))

\* the sql_db_query steps of intermediate_steps, in order
QuerySteps(steps) == SelectSeq(steps, LAMBDA s : s.action.tool = "sql_db_query")

\* the loop without break: the tool_input of the last sql_db_query step
SqlOfLastStep(steps) ==
  LET qs == QuerySteps(steps)
  IN  IF qs = <<>> THEN None ELSE qs[Len(qs)].action.tool_input

\* "no " in output.lower() and any(w in output.lower() for w in [...])
AsksToBroaden(output) ==
  /\ Contains(W_NO, lower(output))
  /\ \E w \in {W_RESULT, W_FOUND, W_MATCH} : Contains(w, lower(output))

\* handle_query of src/dubai.py from the agent's result to the reply
RespondDubai(out, steps, steps_returned) ==
  LET sql == IF steps_returned THEN SqlOfLastStep(steps) ELSE None
      text == IF AsksToBroaden(out) THEN out \o BROADEN_SUFFIX ELSE out
  IN  OkResponse(text, sql)

(***************************************************************************)
(* src/dubai_property_agent.py: the parts of handle_query that are pure.   *)
(***************************************************************************)
\* the correction without "or text"
correct_without_fallback(text, reply) ==
  IF reply.raised THEN text ELSE strip(reply.content)

\* reply: what llm.invoke(fix_prompt) did
correct_spelling_and_grammar(text, reply) ==
  IF reply.raised
    THEN text
    ELSE LET corrected == strip(reply.content)
         IN  IF corrected # <<>> THEN corrected ELSE text

\* history turned into HumanMessage / AIMessage, other roles skipped
RECURSIVE HistoryToMessages(_)
HistoryToMessages(history) ==
  IF history = <<>>
    THEN <<>>
    ELSE LET msg == Head(history)
             role == lower(msg.role)
             rest == HistoryToMessages(Tail(history))
         IN  IF role = ROLE_USER
               THEN <<[type |-> "human", content |-> msg.content]>> \o rest
               ELSE IF role = ROLE_ASSISTANT
                      THEN <<[type |-> "ai", content |-> msg.content]>> \o rest
                      ELSE rest

\* the loop with break: the tool_input of the first sql_db_query step
SqlOfFirstStep(steps) ==
  LET qs == QuerySteps(steps)
  IN  IF qs = <<>> THEN None ELSE qs[1].action.tool_input

\* any(w in output.lower() for w in ["no ", "0 ", "none"]) and "result" in ...
NeedsTip(output) ==
  /\ \E w \in {W_NO, W_ZERO, W_NONE} : Contains(w, lower(output))
  /\ Contains(W_RESULT, lower(output))

\* handle_query of src/dubai_property_agent.py from the result to the reply
RespondAgent(out, steps, steps_returned) ==
  LET sql_used == IF steps_returned THEN SqlOfFirstStep(steps) ELSE None
      text == IF NeedsTip(out) THEN out \o TIP_SUFFIX ELSE out
  IN  OkResponse(text, sql_used)

(***************************************************************************)
(* The agent executors.                                                    *)
(***************************************************************************)
\* max_iterations=12 of src/dubai_property_agent.py
MAX_ITERATIONS_AGENT == 12

\* create_sql_agent's max_iterations when the call names none (src/dubai.py)
MAX_ITERATIONS_DEFAULT == 15

max_iterations(b) ==
  IF b = "dubai_property_agent" THEN MAX_ITERATIONS_AGENT
                                ELSE MAX_ITERATIONS_DEFAULT

\* the loop condition off by one
should_continue_inclusive(b, n) == n <= max_iterations(b)

\* the executor's loop condition
should_continue(b, n) == n < max_iterations(b)

\* early_stopping_method "force": the output of a run stopped by the cap
return_stopped_response(b) ==
  IF b = "dubai_property_agent" THEN STOPPED_MULTI ELSE STOPPED_SINGLE

(***************************************************************************)
(* get_db_connection(retries=3, delay=2).                                  *)
(***************************************************************************)
DEFAULT_RETRIES == 3

DEFAULT_DELAY == 2

CONNECT_FAILED == "Failed to connect to PostgreSQL after retries"

\* what one call of psycopg2.connect may do: return a connection, raise
\* OperationalError, or raise an error of another class (an invalid DSN)
ConnectOutcomes == {"connection", "OperationalError", "ProgrammingError"}

\* range(retries) holding one element too many
in_range_inclusive(i, n) == i <= n

\* attempt in range(retries)
in_range(i, n) == i < n

(***************************************************************************)
(* State.                                                                  *)
(***************************************************************************)
VARIABLES
  catalog,            \* the rows of the properties table
  memory,             \* src/dubai.py: the messages of the process-wide memory
  pc,                 \* where the request being handled is
  backend,            \* which of the two servers is running
  data,               \* request.get_json()
  original_query,     \* the stripped query text
  correction,         \* what llm.invoke did with the correction prompt
  user_query,         \* the input handed to the agent
  chat_history,       \* src/dubai.py: what the memory gave this invocation
  messages,           \* src/dubai_property_agent.py: the converted history
  iterations,         \* the executor's loop counter
  intermediate_steps, \* the executor's (action, observation) pairs
  action,             \* the tool call being executed
  observation,        \* what the tool returned
  pending,            \* tool calls of the current proposal not yet run
  has_steps,          \* "intermediate_steps" in result
  output,             \* result["output"]
  stopped,            \* the run was ended by the iteration cap
  response,           \* the reply of the handler
  n_corrections,      \* calls of the correction prompt in this request
  n_plans,            \* planning calls of the language model in this request
  n_executed,         \* statements run on the catalog in this request
  db_pc,              \* get_db_connection: where the call is
  retries,            \* get_db_connection: its argument retries
  delay,              \* get_db_connection: its argument delay
  attempt,            \* get_db_connection: the loop variable
  outcomes,           \* what each psycopg2.connect call did, in order
  slept,              \* seconds spent in time.sleep
  conn,               \* the connection returned (the number of its attempt)
  db_error,           \* the exception that left get_db_connection
  frontend,           \* which Streamlit script the browser session runs
  session_messages,   \* st.session_state.messages
  chat_id,            \* st.session_state.chat_id
  now,                \* the clock, in seconds
  ui_pc,              \* where the script run is
  posted              \* the json of requests.post

shared == <<catalog, memory>>

request ==
  <<backend, data, original_query, correction, user_query, chat_history, messages>>

loop == <<iterations, intermediate_steps, action, observation, pending>>

result == <<has_steps, output, stopped, response>>

counters == <<n_corrections, n_plans, n_executed>>

handler == <<shared, pc, request, loop, result, counters>>

startup == <<db_pc, retries, delay, attempt, outcomes, slept, conn, db_error>>

browser == <<frontend, session_messages, chat_id, now, ui_pc, posted>>

vars == <<handler, startup, browser>>

\* the server b handles no request
NoRequest(b) ==
  /\ catalog = Properties
  /\ memory = <<>>
  /\ pc = "idle"
  /\ backend = b
  /\ data = NoBody
  /\ original_query = <<>>
  /\ correction = NoReply
  /\ user_query = <<>>
  /\ chat_history = <<>>
  /\ messages = <<>>
  /\ iterations = 0
  /\ intermediate_steps = <<>>
  /\ action = NoAction
  /\ observation = NoObservation
  /\ pending = <<>>
  /\ has_steps = FALSE
  /\ output = <<>>
  /\ stopped = FALSE
  /\ response = NoResponse
  /\ n_corrections = 0
  /\ n_plans = 0
  /\ n_executed = 0

\* get_db_connection is not running
NotConnecting ==
  /\ db_pc = "off"
  /\ retries = DEFAULT_RETRIES
  /\ delay = DEFAULT_DELAY
  /\ attempt = 0
  /\ outcomes = <<>>
  /\ slept = 0
  /\ conn = 0
  /\ db_error = ""

\* no browser session
NoSession ==
  /\ frontend = "none"
  /\ session_messages = <<>>
  /\ chat_id = None
  /\ now = 0
  /\ ui_pc = "closed"
  /\ posted = NoBody

Init ==
  /\ \E b \in Backends : NoRequest(b)
  /\ NotConnecting
  /\ NoSession

(***************************************************************************)
(* A client posts a request to the server that is running (both listen on  *)
(* port 5000, so one of them runs).                                        *)
(***************************************************************************)
Post(d) ==
  /\ pc = "idle"
  /\ backend = "dubai" => d.history = <<>> /\ Len(memory) < 2 * MaxMemory
  /\ pc' = "received"
  /\ data' = d
  /\ UNCHANGED <<shared, backend, original_query, correction, user_query,
                 chat_history, messages, loop, result, counters>>
  /\ UNCHANGED <<startup, browser>>

(***************************************************************************)
(* handle_query up to the call of the agent.                               *)
(***************************************************************************)
\* data.get("query", "").strip()
StrippedQuery == strip(IF data.has_query THEN data.query ELSE <<>>)

\* data is no object: the exception is caught at the end of handle_query
NoJson ==
  /\ pc = "received"
  /\ ~data.json
  /\ \E e \in BodyErrors : response' = ErrorResponse(500, e)
  /\ pc' = "done"
  /\ UNCHANGED <<shared, request, loop, has_steps, output, stopped, counters>>
  /\ UNCHANGED <<startup, browser>>

\* if not query: return {"error": "Query is required"}, 400
QueryRequired ==
  /\ pc = "received"
  /\ data.json
  /\ StrippedQuery = <<>>
  /\ response' = ErrorResponse(400, "Query is required")
  /\ pc' = "done"
  /\ UNCHANGED <<shared, request, loop, has_steps, output, stopped, counters>>
  /\ UNCHANGED <<startup, browser>>

\* src/dubai.py: no keyword in the query, the fixed refusal
GuardRefuses ==
  /\ pc = "received"
  /\ backend = "dubai"
  /\ data.json
  /\ StrippedQuery # <<>>
  /\ ~Guard(StrippedQuery)
  /\ original_query' = StrippedQuery
  /\ response' = OkResponse(REFUSAL, None)
  /\ pc' = "done"
  /\ UNCHANGED <<shared, backend, data, correction, user_query, chat_history,
                 messages, loop, has_steps, output, stopped, counters>>
  /\ UNCHANGED <<startup, browser>>

\* src/dubai.py: agent.invoke({"input": query}); the memory is loaded
InvokeDubai ==
  /\ pc = "received"
  /\ backend = "dubai"
  /\ data.json
  /\ StrippedQuery # <<>>
  /\ Guard(StrippedQuery)
  /\ original_query' = StrippedQuery
  /\ user_query' = StrippedQuery
  /\ chat_history' = memory
  /\ iterations' = 0
  /\ intermediate_steps' = <<>>
  /\ pc' = "planning"
  /\ UNCHANGED <<shared, backend, data, correction, messages, action,
                 observation, pending, result, counters>>
  /\ UNCHANGED <<startup, browser>>

\* src/dubai_property_agent.py: the query is accepted
Accept ==
  /\ pc = "received"
  /\ backend = "dubai_property_agent"
  /\ data.json
  /\ StrippedQuery # <<>>
  /\ original_query' = StrippedQuery
  /\ pc' = "correcting"
  /\ UNCHANGED <<shared, backend, data, correction, user_query, chat_history,
                 messages, loop, result, counters>>
  /\ UNCHANGED <<startup, browser>>

\* src/dubai_property_agent.py: steps 1 to 3 of handle_query
InvokeAgent ==
  /\ pc = "correcting"
  /\ \E reply \in CorrectionReplies :
       /\ correction' = reply
       /\ user_query' = correct_spelling_and_grammar(original_query, reply)
  /\ n_corrections' = n_corrections + 1
  /\ messages' = HistoryToMessages(data.history)
  /\ iterations' = 0
  /\ intermediate_steps' = <<>>
  /\ pc' = "planning"
  /\ UNCHANGED <<shared, backend, data, original_query, chat_history, action,
                 observation, pending, result, n_plans, n_executed>>
  /\ UNCHANGED <<startup, browser>>

(***************************************************************************)
(* The executor's loop: plan, execute, observe.                            *)
(***************************************************************************)
\* one message of the language model may carry several tool calls where the
\* agent is an "openai-tools" agent (src/dubai_property_agent.py); the
\* OPENAI_FUNCTIONS agent of src/dubai.py gets one function call a message
multi_action(b) == b = "dubai_property_agent"

\* the proposals of one planning step: one tool call, or several statements
Proposals(b) ==
  {<<a>> : a \in ToolCalls}
    \cup (IF multi_action(b)
            THEN UNION {[1..n -> {a \in ToolCalls : a.tool = "sql_db_query"}] :
                          n \in 2..MaxQueries}
            ELSE {})

\* the model's bound on what the language model proposes: schema look-ups
\* come before the first statement, and at most MaxQueries statements
Proposable(calls) ==
  IF calls[1].tool = "sql_db_query"
    THEN Len(QuerySteps(intermediate_steps)) + Len(calls) <= MaxQueries
    ELSE QuerySteps(intermediate_steps) = <<>>

\* the agent's result reaches handle_query, which builds the reply
Return(out, steps_returned) ==
  /\ output' = out
  /\ has_steps' = steps_returned
  /\ memory' = IF backend = "dubai"
                 THEN memory \o <<[type |-> "human", content |-> user_query],
                                  [type |-> "ai", content |-> out]>>
                 ELSE memory
  /\ response' = IF backend = "dubai"
                   THEN RespondDubai(out, intermediate_steps, steps_returned)
                   ELSE RespondAgent(out, intermediate_steps, steps_returned)
  /\ pc' = "done"

\* the language model proposes a tool call
PlanTool ==
  /\ pc = "planning"
  /\ should_continue(backend, iterations)
  /\ \E calls \in Proposals(backend) :
       /\ Proposable(calls)
       /\ action' = Head(calls)
       /\ pending' = Tail(calls)
  /\ n_plans' = n_plans + 1
  /\ pc' = "executing"
  /\ UNCHANGED <<shared, request, iterations, intermediate_steps, observation,
                 result, n_corrections, n_executed>>
  /\ UNCHANGED <<startup, browser>>

\* the language model gives its final answer
PlanFinish ==
  /\ pc = "planning"
  /\ should_continue(backend, iterations)
  /\ \E out \in Answers, steps_returned \in BOOLEAN : Return(out, steps_returned)
  /\ n_plans' = n_plans + 1
  /\ UNCHANGED <<catalog, request, loop, stopped, n_corrections, n_executed>>
  /\ UNCHANGED <<startup, browser>>

\* the call of the language model fails: caught at the end of handle_query
PlanFails ==
  /\ pc = "planning"
  /\ should_continue(backend, iterations)
  /\ \E e \in LLMErrors : response' = ErrorResponse(500, e)
  /\ n_plans' = n_plans + 1
  /\ pc' = "done"
  /\ UNCHANGED <<shared, request, loop, has_steps, output, stopped,
                 n_corrections, n_executed>>
  /\ UNCHANGED <<startup, browser>>

\* the tool runs; sql_db_query runs its input on the catalog
Execute ==
  /\ pc = "executing"
  /\ IF action.tool = "sql_db_query"
       THEN /\ observation' =
                 [kind |-> "rows", rows |-> Rows(action.tool_input, catalog)]
            /\ catalog' = After(action.tool_input, catalog)
            /\ n_executed' = n_executed + 1
       ELSE /\ observation' = [kind |-> "schema", rows |-> {}]
            /\ UNCHANGED <<catalog, n_executed>>
  /\ pc' = "observing"
  /\ UNCHANGED <<memory, request, iterations, intermediate_steps, action,
                 pending, result, n_corrections, n_plans>>
  /\ UNCHANGED <<startup, browser>>

\* the language model is asked again while calls it proposed are pending
ObserveAsksAgain ==
  /\ pc = "observing"
  /\ intermediate_steps' =
       Append(intermediate_steps, [action |-> action, observation |-> observation])
  /\ observation' = NoObservation
  /\ action' = NoAction
  /\ iterations' = iterations + 1
  /\ pc' = "planning"
  /\ UNCHANGED <<shared, request, pending, result, counters>>
  /\ UNCHANGED <<startup, browser>>

\* the step is recorded; the next call of the proposal is run, or the loop
\* counter advances and the language model is asked again
Observe ==
  /\ pc = "observing"
  /\ intermediate_steps' =
       Append(intermediate_steps, [action |-> action, observation |-> observation])
  /\ observation' = NoObservation
  /\ IF pending # <<>>
       THEN /\ action' = Head(pending)
            /\ pending' = Tail(pending)
            /\ pc' = "executing"
            /\ UNCHANGED iterations
       ELSE /\ action' = NoAction
            /\ pending' = <<>>
            /\ iterations' = iterations + 1
            /\ pc' = "planning"
  /\ UNCHANGED <<shared, request, result, counters>>
  /\ UNCHANGED <<startup, browser>>

\* the cap is reached and the early stopping method is not supported: the
\* executor raises, caught at the end of handle_query
StopRaises ==
  /\ pc = "planning"
  /\ ~should_continue(backend, iterations)
  /\ response' = ErrorResponse(500, "Got unsupported early_stopping_method")
  /\ stopped' = TRUE
  /\ pc' = "done"
  /\ UNCHANGED <<shared, request, loop, has_steps, output, counters>>
  /\ UNCHANGED <<startup, browser>>

\* the cap is reached: the executor returns the stopped response
Stop ==
  /\ pc = "planning"
  /\ ~should_continue(backend, iterations)
  /\ \E steps_returned \in BOOLEAN :
       Return(return_stopped_response(backend), steps_returned)
  /\ stopped' = TRUE
  /\ UNCHANGED <<catalog, request, loop, counters>>
  /\ UNCHANGED <<startup, browser>>

(***************************************************************************)
(* The reply is sent; the request's locals are gone.                       *)
(***************************************************************************)
Reply ==
  /\ pc = "done"
  /\ pc' = "idle"
  /\ data' = NoBody
  /\ original_query' = <<>>
  /\ correction' = NoReply
  /\ user_query' = <<>>
  /\ chat_history' = <<>>
  /\ messages' = <<>>
  /\ iterations' = 0
  /\ intermediate_steps' = <<>>
  /\ action' = NoAction
  /\ observation' = NoObservation
  /\ pending' = <<>>
  /\ has_steps' = FALSE
  /\ output' = <<>>
  /\ stopped' = FALSE
  /\ response' = NoResponse
  /\ n_corrections' = 0
  /\ n_plans' = 0
  /\ n_executed' = 0
  /\ UNCHANGED <<shared, backend>>
  /\ UNCHANGED <<startup, browser>>

Next ==
  \/ \E d \in Bodies : Post(d)
  \/ NoJson
  \/ QueryRequired
  \/ GuardRefuses
  \/ InvokeDubai
  \/ Accept
  \/ InvokeAgent
  \/ PlanTool
  \/ PlanFinish
  \/ PlanFails
  \/ Execute
  \/ Observe
  \/ Stop
  \/ Reply

Spec == Init /\ [][Next]_vars

(***************************************************************************)
(* Start-up of src/dubai_property_agent.py: init_database() opens its      *)
(* connection with get_db_connection.  The module calls it with the        *)
(* defaults; the arguments are drawn from 0..MaxRetries and 0..MaxDelay.   *)
(***************************************************************************)
InitDb ==
  /\ NoRequest("dubai_property_agent")
  /\ NoSession
  /\ db_pc = "trying"
  /\ retries \in 0..MaxRetries
  /\ delay \in 0..MaxDelay
  /\ attempt = 0
  /\ outcomes = <<>>
  /\ slept = 0
  /\ conn = 0
  /\ db_error = ""

\* try: return psycopg2.connect(DATABASE_URL) / except OperationalError
Connect(outcome) ==
  /\ db_pc = "trying"
  /\ in_range(attempt, retries)
  /\ outcomes' = Append(outcomes, outcome)
  /\ CASE outcome = "connection" ->
            /\ conn' = Len(outcomes) + 1
            /\ db_pc' = "returned"
            /\ UNCHANGED db_error
       [] outcome = "OperationalError" ->
            /\ db_pc' = "sleeping"
            /\ UNCHANGED <<conn, db_error>>
       [] OTHER ->
            /\ db_error' = outcome
            /\ db_pc' = "raised"
            /\ UNCHANGED conn
  /\ UNCHANGED <<retries, delay, attempt, slept, handler, browser>>

\* time.sleep(delay), then the next round of the loop
Sleep ==
  /\ db_pc = "sleeping"
  /\ slept' = slept + delay
  /\ attempt' = attempt + 1
  /\ db_pc' = "trying"
  /\ UNCHANGED <<retries, delay, outcomes, conn, db_error, handler, browser>>

\* the loop is over: raise Exception("Failed to connect ...")
GiveUp ==
  /\ db_pc = "trying"
  /\ ~in_range(attempt, retries)
  /\ db_error' = CONNECT_FAILED
  /\ db_pc' = "raised"
  /\ UNCHANGED <<retries, delay, attempt, outcomes, slept, conn, handler, browser>>

\* init_database: cur = conn.cursor()
OpenCursor ==
  /\ db_pc = "returned"
  /\ db_pc' = "cursor"
  /\ UNCHANGED <<retries, delay, attempt, outcomes, slept, conn, db_error,
                 handler, browser>>

\* the exception leaves init_database(): the module is not loaded
StartupFails ==
  /\ db_pc = "raised"
  /\ db_pc' = "crashed"
  /\ UNCHANGED <<retries, delay, attempt, outcomes, slept, conn, db_error,
                 handler, browser>>

NextDb ==
  \/ \E outcome \in ConnectOutcomes : Connect(outcome)
  \/ Sleep
  \/ GiveUp
  \/ OpenCursor
  \/ StartupFails

SpecDb == InitDb /\ [][NextDb]_vars

(***************************************************************************)
(* The Streamlit front-ends: src/app.py and src/chat.py.  A text is kept   *)
(* as the sequence of its pieces: characters, and the strings put around   *)
(* or after them by an f-string or a +.                                    *)
(***************************************************************************)
Frontends == {"app", "chat"}

\* app.py names its backend; chat.py posts the query alone
served_by(f) == IF f = "app" THEN "dubai_property_agent" ELSE "dubai"

\* what the user types into st.chat_input
Prompts == {IN_VILLAS, IN_READY}

\* the bodies of the 200 replies of a backend
Replies ==
  {[response |-> t, sql |-> q] :
     t \in {ANS_LISTING, ANS_FOUND, REFUSAL}, q \in {None, SQL_MARINA}}

\* str(e) of what requests.post or raise_for_status raised: the backend
\* answered 400 or 500, or did not answer within the timeout
PostErrors ==
  {"500 Server Error: INTERNAL SERVER ERROR for url: http://127.0.0.1:5000/query",
   "HTTPConnectionPool(host='127.0.0.1', port=5000): Read timed out. (read timeout=60)"}

\* the three backquotes that open and close a code block in Markdown (a
\* backquote cannot be written in a string here)
FENCE == "[three backquotes]"

\* s.split("\n")
RECURSIVE split_lines(_, _)
split_lines(s, line) ==
  IF s = <<>>
    THEN <<line>>
    ELSE IF Head(s) = "\n"
           THEN <<line>> \o split_lines(Tail(s), <<>>)
           ELSE split_lines(Tail(s), Append(line, Head(s)))

\* app.py: the text shown and stored for a 200 reply
full_response(answer, sql) ==
  LET low == lower(answer)
      matches == SelectSeq(split_lines(answer, <<>>),
                           LAMBDA l : Contains(W_AED, l)
                                        \/ Contains(KW_BEDROOM, lower(l)))
      shown == IF (Contains(W_FOUND, low) \/ Contains(W_MATCH, low))
                    /\ matches # <<>>
                 THEN <<"**Found ", ToString(Len(matches)),
                        " matching properties**\n\n">> \o answer
                 ELSE answer
  IN  IF sql # None
        THEN shown \o <<"\n\n<details><summary>Generated SQL</summary>\n",
                        FENCE, "sql\n", sql, "\n", FENCE, "\n</details>">>
        ELSE shown

\* chat.py: the text stored for a 200 reply
stored_answer(answer, sql) ==
  IF sql # None
    THEN answer \o <<"\n\n**SQL:**\n", FENCE, "sql\n", sql, "\n", FENCE>>
    ELSE answer

UserTurn(prompt) == [role |-> ROLE_USER, content |-> prompt]

\* the user turns of the stored conversation
UserTurns(msgs) == SelectSeq(msgs, LAMBDA m : m.role = ROLE_USER)

\* the session starts: the script runs for the first time
InitChat ==
  /\ \E f \in Frontends :
       /\ frontend = f
       /\ NoRequest(served_by(f))
       /\ chat_id = IF f = "app" THEN 0 ELSE None
  /\ NotConnecting
  /\ session_messages = <<>>
  /\ now = 0
  /\ ui_pc = "ready"
  /\ posted = NoBody

\* a second passes
Tick ==
  /\ now < MaxClock
  /\ now' = now + 1
  /\ UNCHANGED <<frontend, session_messages, chat_id, ui_pc, posted, handler,
                 startup>>

\* if prompt: the user turn is appended and the request posted
Submit(prompt) ==
  /\ ui_pc = "ready"
  /\ Len(UserTurns(session_messages)) < MaxPrompts
  /\ session_messages' = Append(session_messages, UserTurn(prompt))
  /\ posted' = [json |-> TRUE, has_query |-> TRUE, query |-> prompt,
                history |-> IF frontend = "app" THEN session_messages'
                                                ELSE <<>>]
  /\ ui_pc' = "waiting"
  /\ UNCHANGED <<frontend, chat_id, now, handler, startup>>

\* the backend answered 200 with {"response", "sql"}
Answered(reply) ==
  /\ ui_pc = "waiting"
  /\ session_messages' =
       Append(session_messages,
              IF frontend = "app"
                THEN [role |-> ROLE_ASSISTANT,
                      content |-> full_response(reply.response, reply.sql),
                      map_query |-> posted.query]
                ELSE [role |-> ROLE_ASSISTANT,
                      content |-> stored_answer(reply.response, reply.sql)])
  /\ posted' = NoBody
  /\ ui_pc' = "ready"
  /\ UNCHANGED <<frontend, chat_id, now, handler, startup>>

\* except Exception as e: app.py stores an error turn, chat.py shows st.error
Failed(e) ==
  /\ ui_pc = "waiting"
  /\ session_messages' =
       IF frontend = "app"
         THEN Append(session_messages,
                     [role |-> ROLE_ASSISTANT, content |-> <<"**Error:** ", e>>])
         ELSE session_messages
  /\ posted' = NoBody
  /\ ui_pc' = "ready"
  /\ UNCHANGED <<frontend, chat_id, now, handler, startup>>

\* the button "Clear Chat History"
ClearChat ==
  /\ ui_pc = "ready"
  /\ session_messages' = <<>>
  /\ chat_id' = IF frontend = "app" THEN now ELSE chat_id
  /\ UNCHANGED <<frontend, now, ui_pc, posted, handler, startup>>

NextChat ==
  \/ Tick
  \/ \E prompt \in Prompts : Submit(prompt)
  \/ \E reply \in Replies : Answered(reply)
  \/ \E e \in PostErrors : Failed(e)
  \/ ClearChat

ChatSpec == InitChat /\ [][NextChat]_vars

(***************************************************************************)
(* The claims.                                                             *)
(***************************************************************************)
InLoop == pc \in {"planning", "executing", "observing"}

\* the statements this request ran on the catalog, in order
Executed == QuerySteps(intermediate_steps)

\* some statement of this request returned rows
ObservedRows ==
  \E i \in 1..Len(intermediate_steps) :
    intermediate_steps[i].observation.rows # {}

\* C1: only statements classified SAFE are executed: in no reachable state
\* is a mutating or schema-altering statement executing on the catalog.
C1_NoMutatingStatementExecutes ==
  ~(pc = "executing" /\ action.tool = "sql_db_query"
      /\ IsMutating(action.tool_input))

\* C2: after any sequence of /query requests the content of the catalog is
\* what it was before the first request.
C2_CatalogNeverWritten == catalog = Properties

\* the request's text is not empty and contains none of the domain keywords
FailsGuard ==
  /\ pc # "idle"
  /\ data.json
  /\ StrippedQuery # <<>>
  /\ \A kw \in keywords : ~Contains(kw, lower(StrippedQuery))

C4_MissingTextIsValidationError ==
  (pc = "done" /\ (~data.json \/ StrippedQuery = <<>>)) =>
    /\ response = ErrorResponse(400, "Query is required")
    /\ n_corrections = 0
    /\ n_plans = 0
    /\ n_executed = 0

\* C5 as stated: the planner performs at most 12 planning iterations.
C5_AtMostTwelve ==
  iterations <= MAX_ITERATIONS_AGENT /\ n_plans <= MAX_ITERATIONS_AGENT

IterationsWithinCap ==
  /\ backend = "dubai_property_agent" =>
       iterations <= MAX_ITERATIONS_AGENT /\ n_plans <= MAX_ITERATIONS_AGENT
  /\ backend = "dubai" =>
       iterations <= MAX_ITERATIONS_DEFAULT /\ n_plans <= MAX_ITERATIONS_DEFAULT

\* the steps the handler has left at most: an iteration of the loop is one
\* planning step and two steps (execute, observe) for each call proposed
Rank ==
  LET cap == IF backend = "dubai_property_agent" THEN MAX_ITERATIONS_AGENT
                                                 ELSE MAX_ITERATIONS_DEFAULT
      round == 2 * MaxQueries + 1
      left == round * (cap - iterations)
      inRound == left - round + 2 * (Len(pending) + 1)
  IN  CASE pc = "received" -> left + 5
        [] pc = "correcting" -> left + 4
        [] pc = "planning" -> left + 3
        [] pc = "executing" -> inRound + 3
        [] pc = "observing" -> inRound + 2
        [] pc = "done" -> 1
        [] OTHER -> 0

\* C5 amended: the planner performs at most the maximum of the server that
\* handles the request (12 where max_iterations=12 is set, the executor's
\* default of 15 where it is not), and the planner never loops forever:
\* every step of a handler lowers the number of steps it has left, which
\* is never negative.
C5_BoundedPlanning ==
  /\ [](IterationsWithinCap /\ Rank >= 0)
  /\ [][pc # "idle" => Rank' < Rank]_vars

C5_CapReached ==
  /\ backend = "dubai_property_agent"
  /\ pc = "done"
  /\ stopped
  /\ iterations = MAX_ITERATIONS_AGENT
  /\ n_plans = MAX_ITERATIONS_AGENT

CorrectionFailed ==
  /\ backend = "dubai_property_agent"
  /\ n_corrections > 0
  /\ (correction.raised \/ strip(correction.content) = <<>>)

\* C7: if the correction mechanism fails or returns an empty string, the
\* corrected text is the original text and the request goes on to the
\* planner: no error reply comes from the correction.
C7_CorrectionFallsBack ==
  CorrectionFailed =>
    /\ user_query = original_query
    /\ user_query # <<>>
    /\ n_plans = 0 => (pc = "planning" /\ response = NoResponse)

C7_FellBack ==
  /\ CorrectionFailed
  /\ correction.raised
  /\ pc = "planning"
  /\ user_query = strip(IN_READY)

\* C8: in every successful response the query field is the statement that
\* was executed last (the one whose rows are the final rows), and null
\* only when no statement was executed.
C8_QueryFieldIsFinalStatement ==
  (pc = "done" /\ response.kind = "response") =>
    response.sql =
      IF Executed = <<>> THEN None
                         ELSE Executed[Len(Executed)].action.tool_input

\* C9: whenever the final executed statement matched no rows, the response
\* contains the broadening suggestion, whatever the planner's wording.
C9_EmptyResultSuggestsBroadening ==
  ( /\ pc = "done"
    /\ response.kind = "response"
    /\ Executed # <<>>
    /\ Executed[Len(Executed)].observation.rows = {} ) =>
    Contains(IF backend = "dubai" THEN BROADEN_SUFFIX ELSE TIP_SUFFIX,
             response.response)

\* C10: the context the planner gets for a request is determined by that
\* request's own text and history alone.
C10_ContextIsTheRequestsOwn ==
  InLoop =>
    IF backend = "dubai"
      THEN user_query = StrippedQuery /\ chat_history = <<>>
      ELSE messages = HistoryToMessages(data.history)

\* C11: an exception caught at the request boundary becomes an {error}
\* reply whose text is generic: the text of a 500 reply is never the
\* message of the exception that was caught.
C11_ErrorTextIsGeneric ==
  (pc = "done" /\ response.kind = "error" /\ response.code = 500) =>
    response.error \notin (BodyErrors \cup LLMErrors)

\* the turn before the current one listed Dubai Marina apartments
PriorTurnListed ==
  IF backend = "dubai"
    THEN memory # <<>> /\ memory[Len(memory)].content = ANS_LISTING
    ELSE data.history = HISTORY_TURNS

\* the context the planner got holds the text of that turn
ContextHoldsListing ==
  LET context == IF backend = "dubai" THEN chat_history ELSE messages
  IN  \E i \in 1..Len(context) : context[i].content = ANS_LISTING

\* C12: after a turn that listed Dubai Marina apartments, the follow-up
\* "are they all ready?" is not refused: it reaches the planner, with the
\* prior turn's text in its context.
C12_FollowUpReachesPlanner ==
  (data.json /\ StrippedQuery = IN_READY /\ PriorTurnListed) =>
    /\ response.response # REFUSAL
    /\ pc = "done" => n_plans > 0
    /\ InLoop => ContextHoldsListing

\* C13: a request with empty history on an unchanged catalog gives the
\* planner what an earlier request of the same text gave it: where the
\* memory records such an earlier request, the context of this one is the
\* context that one had; where nothing is kept, the context is empty.
C13_SecondRunSameInput ==
  (InLoop /\ data.history = <<>> /\ catalog = Properties) =>
    IF backend = "dubai"
      THEN \A i \in 1..Len(memory) :
             (memory[i].type = "human" /\ memory[i].content = user_query) =>
               chat_history = SubSeq(memory, 1, i - 1)
      ELSE messages = <<>>

\* C16: the stages run in the order correction, guard, planner: a request
\* is in the planner only after the correction ran and the guard passed
\* its output, and is refused only after the correction ran and the guard
\* failed its output.
C16_GuardJudgesCorrectedText ==
  /\ (pc = "done" /\ response.response = REFUSAL) =>
       (n_corrections = 1 /\ ~Guard(user_query))
  /\ InLoop => (n_corrections = 1 /\ Guard(user_query))

C19_TipOnlyWhenEmpty ==
  ( /\ pc = "done"
    /\ response.kind = "response"
    /\ Executed # <<>>
    /\ Executed[Len(Executed)].observation.rows # {} ) =>
    ~Contains(IF backend = "dubai" THEN BROADEN_SUFFIX ELSE TIP_SUFFIX,
              response.response)

\* C14: get_db_connection makes at most retries attempts; it returns the
\* connection of the first attempt that succeeds, every attempt before it
\* having failed with OperationalError; it raises its connectivity error
\* only when retries attempts were made and all failed with
\* OperationalError; and once it has returned or raised, it makes no
\* further attempt.
C14_BoundedRetry ==
  /\ [](/\ Len(outcomes) <= retries
        /\ db_pc \in {"returned", "cursor"} =>
             /\ conn = Len(outcomes)
             /\ outcomes[conn] = "connection"
             /\ \A i \in 1..(conn - 1) : outcomes[i] = "OperationalError"
        /\ db_error = CONNECT_FAILED =>
             /\ conn = 0
             /\ Len(outcomes) = retries
             /\ \A i \in 1..Len(outcomes) : outcomes[i] = "OperationalError")
  /\ [][(db_pc \in {"returned", "cursor", "raised", "crashed"}) =>
          outcomes' = outcomes]_vars

C14_GaveUp ==
  /\ db_pc = "raised"
  /\ db_error = CONNECT_FAILED
  /\ retries = DEFAULT_RETRIES
  /\ delay = DEFAULT_DELAY
  /\ Len(outcomes) = DEFAULT_RETRIES
  /\ slept = DEFAULT_RETRIES * DEFAULT_DELAY

\* C15: the context the planner gets for a request posted by app.py is
\* the turns stored before the current one, in order, and the current text
\* is its input only: the history the handler converts is the stored
\* conversation without its last turn, the current user turn.
C15_ContextIsPrecedingTurns ==
  (frontend = "app" /\ ui_pc = "waiting") =>
    /\ posted.query = session_messages[Len(session_messages)].content
    /\ HistoryToMessages(posted.history) =
         HistoryToMessages(SubSeq(session_messages, 1,
                                  Len(session_messages) - 1))

\* s is a prefix of t
IsPrefix(s, t) == Len(s) <= Len(t) /\ SubSeq(t, 1, Len(s)) = s

\* C17: while the session id stays the same the stored conversation only
\* grows at its end: every step that keeps chat_id keeps the turns stored
\* so far, in their order, as a prefix.
C17_AppendOnlyWithinSession ==
  [][chat_id' = chat_id => IsPrefix(session_messages, session_messages')]_vars

\* C20: whenever no request is in flight the stored conversation is user,
\* assistant, user, assistant, ...: it is empty or ends with an assistant
\* turn, whatever the backend did with each prompt.
C20_TurnsAlternate ==
  ui_pc = "ready" =>
    /\ Len(session_messages) % 2 = 0
    /\ \A i \in 1..Len(session_messages) :
         session_messages[i].role =
           IF i % 2 = 1 THEN ROLE_USER ELSE ROLE_ASSISTANT

=============================================================================
